---- MODULE Spec2Model ----
(***************************************************************************)
(* Model of the virtualized table widget of polariton                      *)
(* (src/src/gui/table.rs): TableState, Table::update and Table::draw.      *)
(*                                                                         *)
(* The widget computes in f32.  The model computes the same expressions    *)
(* in exact rational arithmetic: a number is a record [n, d] with d > 0    *)
(* and gcd(|n|, d) = 1.  Column indices are 0-based as in the source;      *)
(* col_widths[i] of the source is col_widths[i + 1] here.                  *)
(* Option values are sequences: None is << >>, Some(v) is <<v>>.           *)
(***************************************************************************)
EXTENDS Integers, Sequences, FiniteSets

(* ------------------------------------------------------------------ *)
(* Exact rational arithmetic standing for f32                          *)
(* ------------------------------------------------------------------ *)

Abs(i) == IF i < 0 THEN -i ELSE i

RECURSIVE GCD(_, _)
GCD(a, b) == IF b = 0 THEN a ELSE GCD(b, a % b)

Rat(n, d) ==
    LET g == GCD(Abs(n), d)
    IN  [n |-> n \div g, d |-> d \div g]

R(i) == [n |-> i, d |-> 1]

RNeg(a) == [n |-> -a.n, d |-> a.d]

RAdd(a, b) ==
    LET g == GCD(a.d, b.d)
    IN  Rat(a.n * (b.d \div g) + b.n * (a.d \div g), (a.d \div g) * b.d)

RSub(a, b) == RAdd(a, RNeg(b))

RMul(a, b) ==
    LET g1 == GCD(Abs(a.n), b.d)
        g2 == GCD(Abs(b.n), a.d)
    IN  [n |-> (a.n \div g1) * (b.n \div g2), d |-> (a.d \div g2) * (b.d \div g1)]

RInv(a) == IF a.n > 0 THEN [n |-> a.d, d |-> a.n] ELSE [n |-> -a.d, d |-> -a.n]

RDiv(a, b) == RMul(a, RInv(b))

RFloor(a) == a.n \div a.d

RCeil(a) == -((-a.n) \div a.d)

\* a < b, comparing integer parts first so that no product leaves TLC's integers
RLt(a, b) ==
    LET fa == RFloor(a)
        fb == RFloor(b)
    IN  \/ fa < fb
        \/ fa = fb /\ (a.n - fa * a.d) * b.d < (b.n - fb * b.d) * a.d

RLe(a, b) == ~RLt(b, a)

RMax(a, b) == IF RLt(a, b) THEN b ELSE a

RMin(a, b) == IF RLt(b, a) THEN b ELSE a

RAbs(a) == [n |-> Abs(a.n), d |-> a.d]

\* f32::clamp(lo, hi)
RClamp(x, lo, hi) == IF RLt(x, lo) THEN lo ELSE IF RLt(hi, x) THEN hi ELSE x

\* `f as usize`: the cast saturates below at 0
AsUsize(i) == IF i < 0 THEN 0 ELSE i

RECURSIVE RSum(_)
RSum(s) == IF s = << >> THEN R(0) ELSE RAdd(s[1], RSum(Tail(s)))

None == << >>
Some(v) == <<v>>
IsSome(o) == o # << >>
Unwrap(o) == o[1]

(* ------------------------------------------------------------------ *)
(* Program constants                                                   *)
(* ------------------------------------------------------------------ *)

ROW_HEIGHT == 28
HEADER_HEIGHT == 32
MIN_COL_WIDTH == 28
DEFAULT_COL_WIDTH == 80
V_SCROLLBAR_WIDTH == 12
H_SCROLLBAR_HEIGHT == 12
COL_RESIZE_GRAB_ZONE == 4
MIN_THUMB == 20

(* ------------------------------------------------------------------ *)
(* Bounds of the model                                                 *)
(* ------------------------------------------------------------------ *)

\* events and host steps handled in one behaviour
MaxEvents == 3

(* ------------------------------------------------------------------ *)
(* Inputs: tables, viewports, cursor positions, wheel deltas, keys     *)
(* ------------------------------------------------------------------ *)

Rect(x, y, w, h) == [x |-> R(x), y |-> R(y), width |-> R(w), height |-> R(h)]

Pt(x, y) == [x |-> R(x), y |-> R(y)]

\* Table: `columns` holds the loaded length of each column (cell text plays
\* no part in layout); headers.len() = columns.len() is the constructor's
\* contract.
TableS == [columns |-> <<10, 10, 10, 10>>, total_row_count |-> 1000000,
           row_offset |-> 500000, col_width |-> Some(R(80))]

TableT == [columns |-> <<5, 5>>, total_row_count |-> 5,
           row_offset |-> 0, col_width |-> None]

TableU == [columns |-> <<3, 3, 2>>, total_row_count |-> 8,
           row_offset |-> 3, col_width |-> Some(R(40))]

\* TableT's column count with other rows, another row_offset and a fixed width
TableV == [columns |-> <<4, 4>>, total_row_count |-> 4,
           row_offset |-> 1, col_width |-> Some(R(100))]

\* the tables a run may start with; TableS is used in ViewA alone
Tables == {TableT, TableU}

\* the tables the host may switch to
HostTables == {TableT, TableU, TableV}

ViewA == Rect(0, 0, 800, 600)

ViewB == Rect(10, 20, 112, 100)

ViewC == Rect(10, 20, 112, 64)

Viewports == {ViewA, ViewB, ViewC}

\* Cursor positions (window coordinates)
CursorPoints ==
    { Pt(90, 30), Pt(110, 30), Pt(170, 30), Pt(-2, 30),
      Pt(110, 52), Pt(112, 52), Pt(110, 70), Pt(110, 200),
      Pt(20, 112), Pt(60, 112), Pt(60, 60),
      Pt(244, 30), Pt(60, 592) }

\* Cursor::Available(p) / Cursor::Unavailable as handed to update
Cursors == {Some(p) : p \in CursorPoints} \cup {None}

HoverCursors == {Some(Pt(60, 60)), Some(Pt(-2, 30)), None}

Lines(x, y) == [unit |-> "Lines", x |-> R(x), y |-> R(y)]

Pixels(x, y) == [unit |-> "Pixels", x |-> R(x), y |-> R(y)]

WheelDeltas ==
    { Lines(0, -3), Lines(0, 1), Lines(-1, 0),
      Pixels(-60, 0), Pixels(0, -14), Pixels(3, 3) }

Keys == { "PageDown", "PageUp", "Home", "End", "ArrowDown", "ArrowUp",
          "ArrowRight", "ArrowLeft", "Other" }

(* ------------------------------------------------------------------ *)
(* State                                                               *)
(* ------------------------------------------------------------------ *)

VARIABLES
    table,                    \* the Table the host built for this frame
    bounds,                   \* layout.bounds()
    col_widths,               \* TableState
    resizing_col,
    resize_drag_start_x,
    resize_drag_start_width,
    h_drag_start_offset,
    h_drag_start_x,
    h_dragging_scrollbar,
    h_scroll_offset,
    v_drag_start_offset,
    v_drag_start_y,
    v_dragging_scrollbar,
    v_scroll_offset,
    redraw,                   \* shell.request_redraw() called by the last update
    frame,                    \* what the last draw emitted, None after an event
    panicked,                 \* an index went out of range: the program aborted
    nEvents                   \* events and host steps handled in this behaviour

tstate == <<col_widths, resizing_col, resize_drag_start_x, resize_drag_start_width,
            h_drag_start_offset, h_drag_start_x, h_dragging_scrollbar, h_scroll_offset,
            v_drag_start_offset, v_drag_start_y, v_dragging_scrollbar, v_scroll_offset>>

vars == <<table, bounds, tstate, redraw, frame, panicked, nEvents>>

(* ------------------------------------------------------------------ *)
(* Table: layout helpers                                               *)
(* ------------------------------------------------------------------ *)

col_count(t) == Len(t.columns)

\* variant: the default width is floored at the minimum column width
default_col_width_min_floor(t, viewport_width) ==
    IF IsSome(t.col_width)
    THEN RMax(Unwrap(t.col_width), R(MIN_COL_WIDTH))
    ELSE LET n == IF col_count(t) > 1 THEN col_count(t) ELSE 1
         IN  RMax(RDiv(viewport_width, R(n)), R(MIN_COL_WIDTH))

default_col_width(t, viewport_width) ==
    IF IsSome(t.col_width)
    THEN RMax(Unwrap(t.col_width), R(DEFAULT_COL_WIDTH))
    ELSE LET n == IF col_count(t) > 1 THEN col_count(t) ELSE 1
         IN  RMax(RDiv(viewport_width, R(n)), R(DEFAULT_COL_WIDTH))

\* variant: the widths are recomputed on every call
col_widths_recomputed(t, cw, viewport_width) ==
    [i \in 1..col_count(t) |-> default_col_width(t, viewport_width)]

\* Table::col_widths: the widths after reconciling their number with the column count
col_widths_of(t, cw, viewport_width) ==
    IF Len(cw) # col_count(t)
    THEN [i \in 1..col_count(t) |-> default_col_width(t, viewport_width)]
    ELSE cw

total_content_width(cw) == RSum(cw)

total_content_height(t) == R(HEADER_HEIGHT + t.total_row_count * ROW_HEIGHT)

loaded_row_count(t) == IF t.columns = << >> THEN 0 ELSE t.columns[1]

col_left_edges(cw) == [i \in 1..Len(cw) |-> RSum(SubSeq(cw, 1, i - 1))]

\* variant: the divider is looked for at the left edge of each column
divider_at_left_edge(cw, h_scroll, b, cursor_x, cursor_y) ==
    IF RLt(cursor_y, b.y) \/ RLt(RAdd(b.y, R(HEADER_HEIGHT)), cursor_y)
    THEN None
    ELSE LET content_x == RAdd(RSub(cursor_x, b.x), h_scroll)
             edges == col_left_edges(cw)
             hits == {i \in 1..Len(cw) :
                        RLe(RAbs(RSub(content_x, edges[i])), R(COL_RESIZE_GRAB_ZONE))}
         IN  IF hits = {} THEN None
             ELSE Some((CHOOSE i \in hits : \A j \in hits : i <= j) - 1)

divider_at_cursor(cw, h_scroll, b, cursor_x, cursor_y) ==
    IF RLt(cursor_y, b.y) \/ RLt(RAdd(b.y, R(HEADER_HEIGHT)), cursor_y)
    THEN None
    ELSE LET content_x == RAdd(RSub(cursor_x, b.x), h_scroll)
             edges == col_left_edges(cw)
             hit(i) == RLe(RAbs(RSub(content_x, RAdd(edges[i], cw[i]))),
                           R(COL_RESIZE_GRAB_ZONE))
             hits == {i \in 1..Len(cw) : hit(i)}
         IN  IF hits = {} THEN None
             ELSE Some((CHOOSE i \in hits : \A j \in hits : i <= j) - 1)

\* A Rectangle is given by its fields: rect("x"), rect("y"), rect("width"),
\* rect("height").
h_scrollbar_thumb_rect(b, h_scroll, cw, field) ==
    LET total_w == total_content_width(cw)
        track_w == RSub(b.width, R(V_SCROLLBAR_WIDTH))
        thumb_w == RMax(RMul(track_w, RDiv(track_w, RMax(total_w, R(1)))), R(MIN_THUMB))
        max_scroll == RMax(RSub(total_w, track_w), R(0))
        thumb_x == RAdd(b.x,
                        IF RLt(R(0), max_scroll)
                        THEN RMul(RDiv(h_scroll, max_scroll), RSub(track_w, thumb_w))
                        ELSE R(0))
    IN  CASE field = "x" -> thumb_x
          [] field = "y" -> RAdd(RSub(RAdd(b.y, b.height), R(H_SCROLLBAR_HEIGHT)), R(2))
          [] field = "width" -> thumb_w
          [] field = "height" -> R(H_SCROLLBAR_HEIGHT - 4)

v_scrollbar_thumb_rect(t, b, v_scroll, field) ==
    LET total_h == total_content_height(t)
        track_h == RSub(RSub(b.height, R(HEADER_HEIGHT)), R(H_SCROLLBAR_HEIGHT))
        thumb_h == RMax(RMul(track_h,
                             RDiv(track_h, RMax(RSub(total_h, R(HEADER_HEIGHT)), R(1)))),
                        R(MIN_THUMB))
        max_scroll == RMax(RAdd(RSub(total_h, b.height), R(H_SCROLLBAR_HEIGHT)), R(0))
        thumb_y == RAdd(RAdd(b.y, R(HEADER_HEIGHT)),
                        IF RLt(R(0), max_scroll)
                        THEN RMul(RDiv(v_scroll, max_scroll), RSub(track_h, thumb_h))
                        ELSE R(0))
    IN  CASE field = "x" -> RSub(RSub(RAdd(b.x, b.width), R(V_SCROLLBAR_WIDTH)), R(2))
          [] field = "y" -> thumb_y
          [] field = "width" -> R(V_SCROLLBAR_WIDTH - 4)
          [] field = "height" -> thumb_h

\* Rectangle::contains, the rectangle given by its four fields
contains(x, y, width, height, p) ==
    /\ RLe(x, p.x) /\ RLt(p.x, RAdd(x, width))
    /\ RLe(y, p.y) /\ RLt(p.y, RAdd(y, height))

\* Cursor::is_over
is_over(cursor, x, y, width, height) ==
    IsSome(cursor) /\ contains(x, y, width, height, Unwrap(cursor))

(* ------------------------------------------------------------------ *)
(* Table::update: the values computed before the match on the event    *)
(* ------------------------------------------------------------------ *)

viewport_w == RSub(bounds.width, R(V_SCROLLBAR_WIDTH))

viewport_h == RSub(bounds.height, R(H_SCROLLBAR_HEIGHT))

\* state.col_widths after self.col_widths(state, viewport_w)
reconciled == col_widths_of(table, col_widths, viewport_w)

max_v_scroll == RMax(RSub(total_content_height(table), viewport_h), R(0))

max_h_scroll == RMax(RSub(total_content_width(reconciled), viewport_w), R(0))

v_thumb(field) == v_scrollbar_thumb_rect(table, bounds, v_scroll_offset, field)

h_thumb(field) == h_scrollbar_thumb_rect(bounds, h_scroll_offset, reconciled, field)

\* layout.bounds() as a Rectangle
bounds_rect(field) == bounds[field]

\* the match guard `if cursor.is_over(bounds)` of the wheel and key arms
cursor_over_bounds(cursor) ==
    is_over(cursor, bounds_rect("x"), bounds_rect("y"),
            bounds_rect("width"), bounds_rect("height"))

\* what every call of update does besides handling its event
UpdateFrame ==
    /\ ~panicked
    /\ nEvents < MaxEvents
    /\ nEvents' = nEvents + 1
    /\ frame' = None
    /\ UNCHANGED <<table, bounds>>

(* ------------------------------------------------------------------ *)
(* Event::Mouse(ButtonPressed(Left))                                   *)
(* ------------------------------------------------------------------ *)

\* variant: the thumbs are tested before the dividers
press_target_thumb_first(cursor) ==
    IF ~IsSome(cursor) THEN [kind |-> "none", index |-> 0]
    ELSE LET pos == Unwrap(cursor)
             div == divider_at_cursor(reconciled, h_scroll_offset, bounds, pos.x, pos.y)
         IN  IF is_over(cursor, v_thumb("x"), v_thumb("y"), v_thumb("width"), v_thumb("height"))
             THEN [kind |-> "v_thumb", index |-> 0]
             ELSE IF is_over(cursor, h_thumb("x"), h_thumb("y"), h_thumb("width"), h_thumb("height"))
                  THEN [kind |-> "h_thumb", index |-> 0]
             ELSE IF IsSome(div) THEN [kind |-> "divider", index |-> Unwrap(div)]
             ELSE [kind |-> "none", index |-> 0]

\* the branch the press takes: "divider" (with the column), "v_thumb",
\* "h_thumb" or "none"
press_target(cursor) ==
    IF ~IsSome(cursor) THEN [kind |-> "none", index |-> 0]
    ELSE LET pos == Unwrap(cursor)
             div == divider_at_cursor(reconciled, h_scroll_offset, bounds, pos.x, pos.y)
         IN  IF IsSome(div) THEN [kind |-> "divider", index |-> Unwrap(div)]
             ELSE IF is_over(cursor, v_thumb("x"), v_thumb("y"), v_thumb("width"), v_thumb("height"))
                  THEN [kind |-> "v_thumb", index |-> 0]
             ELSE IF is_over(cursor, h_thumb("x"), h_thumb("y"), h_thumb("width"), h_thumb("height"))
                  THEN [kind |-> "h_thumb", index |-> 0]
             ELSE [kind |-> "none", index |-> 0]

ButtonPressed(cursor) ==
    /\ UpdateFrame
    /\ UNCHANGED <<h_scroll_offset, v_scroll_offset, panicked>>
    /\ LET target == press_target(cursor)
           pos == Unwrap(cursor)
       IN  /\ col_widths' = reconciled
           /\ IF target.kind = "divider"
              THEN /\ resizing_col' = Some(target.index)
                   /\ resize_drag_start_x' = pos.x
                   /\ resize_drag_start_width' = reconciled[target.index + 1]
              ELSE UNCHANGED <<resizing_col, resize_drag_start_x, resize_drag_start_width>>
           /\ IF target.kind = "v_thumb"
              THEN /\ v_dragging_scrollbar' = TRUE
                   /\ v_drag_start_y' = pos.y
                   /\ v_drag_start_offset' = v_scroll_offset
              ELSE UNCHANGED <<v_dragging_scrollbar, v_drag_start_y, v_drag_start_offset>>
           /\ IF target.kind = "h_thumb"
              THEN /\ h_dragging_scrollbar' = TRUE
                   /\ h_drag_start_x' = pos.x
                   /\ h_drag_start_offset' = h_scroll_offset
              ELSE UNCHANGED <<h_dragging_scrollbar, h_drag_start_x, h_drag_start_offset>>
           /\ redraw' = (target.kind # "none")

(* ------------------------------------------------------------------ *)
(* Event::Mouse(CursorMoved { position })                              *)
(* ------------------------------------------------------------------ *)

\* variant: the resized width is not floored at the minimum
resized_width_unfloored(start_width, delta) == RAdd(start_width, delta)

resized_width(start_width, delta) == RMax(RAdd(start_width, delta), R(MIN_COL_WIDTH))

\* variant: the resize forgets to re-clamp the horizontal offset
reclamped_h_scroll_kept(h_scroll, new_cw, vw) == h_scroll

\* h_scroll_offset re-clamped against the widths after the resize
reclamped_h_scroll(h_scroll, new_cw, vw) ==
    LET new_total_w == total_content_width(new_cw)
        new_max_h == RMax(RSub(new_total_w, vw), R(0))
    IN  RMin(h_scroll, new_max_h)

\* variant: the dragged offset is not clamped
thumb_drag_offset_unclamped(start_offset, drag_delta, track, thumb, max_scroll) ==
    RAdd(start_offset,
         RMul(RDiv(drag_delta, RMax(RSub(track, thumb), R(1))), max_scroll))

\* the offset a thumb drag sets
thumb_drag_offset(start_offset, drag_delta, track, thumb, max_scroll) ==
    LET scroll_ratio == RDiv(drag_delta, RMax(RSub(track, thumb), R(1)))
    IN  RClamp(RAdd(start_offset, RMul(scroll_ratio, max_scroll)), R(0), max_scroll)

CursorMoved(position) ==
    /\ UpdateFrame
    /\ IF IsSome(resizing_col)
       THEN LET col_idx == Unwrap(resizing_col)
            IN  IF col_idx >= Len(reconciled)
                THEN \* state.col_widths[col_idx]: index out of bounds
                     /\ panicked' = TRUE
                     /\ col_widths' = reconciled
                     /\ redraw' = FALSE
                     /\ UNCHANGED <<h_scroll_offset, v_scroll_offset>>
                ELSE LET delta == RSub(position.x, resize_drag_start_x)
                         new_cw == [reconciled EXCEPT ![col_idx + 1] =
                                        resized_width(resize_drag_start_width, delta)]
                     IN  /\ col_widths' = new_cw
                         /\ h_scroll_offset' =
                                reclamped_h_scroll(h_scroll_offset, new_cw, viewport_w)
                         /\ redraw' = TRUE
                         /\ UNCHANGED <<v_scroll_offset, panicked>>
       ELSE IF v_dragging_scrollbar
       THEN LET drag_delta == RSub(position.y, v_drag_start_y)
                track_h == RSub(RSub(bounds.height, R(HEADER_HEIGHT)), R(H_SCROLLBAR_HEIGHT))
            IN  /\ v_scroll_offset' = thumb_drag_offset(v_drag_start_offset, drag_delta,
                                                        track_h, v_thumb("height"), max_v_scroll)
                /\ col_widths' = reconciled
                /\ redraw' = TRUE
                /\ UNCHANGED <<h_scroll_offset, panicked>>
       ELSE IF h_dragging_scrollbar
       THEN LET drag_delta == RSub(position.x, h_drag_start_x)
            IN  /\ h_scroll_offset' = thumb_drag_offset(h_drag_start_offset, drag_delta,
                                                        viewport_w, h_thumb("width"), max_h_scroll)
                /\ col_widths' = reconciled
                /\ redraw' = TRUE
                /\ UNCHANGED <<v_scroll_offset, panicked>>
       ELSE /\ col_widths' = reconciled
            /\ redraw' = FALSE
            /\ UNCHANGED <<h_scroll_offset, v_scroll_offset, panicked>>
    /\ UNCHANGED <<resizing_col, resize_drag_start_x, resize_drag_start_width,
                   h_drag_start_offset, h_drag_start_x, h_dragging_scrollbar,
                   v_drag_start_offset, v_drag_start_y, v_dragging_scrollbar>>

(* ------------------------------------------------------------------ *)
(* Event::Mouse(ButtonReleased(Left))                                  *)
(* ------------------------------------------------------------------ *)

ButtonReleased ==
    /\ UpdateFrame
    /\ col_widths' = reconciled
    /\ IF IsSome(resizing_col)
       THEN /\ resizing_col' = None
            /\ redraw' = TRUE
            /\ UNCHANGED <<v_dragging_scrollbar, h_dragging_scrollbar>>
       ELSE IF v_dragging_scrollbar \/ h_dragging_scrollbar
       THEN /\ v_dragging_scrollbar' = FALSE
            /\ h_dragging_scrollbar' = FALSE
            /\ redraw' = TRUE
            /\ UNCHANGED resizing_col
       ELSE /\ redraw' = FALSE
            /\ UNCHANGED <<resizing_col, v_dragging_scrollbar, h_dragging_scrollbar>>
    /\ UNCHANGED <<resize_drag_start_x, resize_drag_start_width, h_drag_start_offset,
                   h_drag_start_x, h_scroll_offset, v_drag_start_offset, v_drag_start_y,
                   v_scroll_offset, panicked>>

\* variant: an arm that does not handle the drag cancels it
drag_cancelled ==
    /\ resizing_col' = None
    /\ v_dragging_scrollbar' = FALSE
    /\ h_dragging_scrollbar' = FALSE
    /\ UNCHANGED <<resize_drag_start_x, resize_drag_start_width, h_drag_start_offset,
                   h_drag_start_x, v_drag_start_offset, v_drag_start_y>>

\* what the arms that leave TableState's drag fields alone have in common
DragUnchanged ==
    UNCHANGED <<resizing_col, resize_drag_start_x, resize_drag_start_width,
                h_drag_start_offset, h_drag_start_x, h_dragging_scrollbar,
                v_drag_start_offset, v_drag_start_y, v_dragging_scrollbar>>

(* ------------------------------------------------------------------ *)
(* Event::Mouse(WheelScrolled { delta }) if cursor.is_over(bounds)     *)
(* ------------------------------------------------------------------ *)

\* TRUE when the delta drives the horizontal offset
wheel_horizontal(delta) == RLt(RAbs(delta.y), RAbs(delta.x))

\* variant: line deltas are applied as if they were pixels
wheel_step_unscaled(delta) == IF wheel_horizontal(delta) THEN delta.x ELSE delta.y

\* the amount subtracted from the offset of the driven axis
wheel_step(delta) ==
    IF delta.unit = "Lines"
    THEN IF wheel_horizontal(delta)
         THEN RMul(delta.x, R(MIN_COL_WIDTH))
         ELSE RMul(delta.y, R(ROW_HEIGHT))
    ELSE IF wheel_horizontal(delta) THEN delta.x ELSE delta.y

WheelScrolled(cursor, delta) ==
    /\ UpdateFrame
    /\ col_widths' = reconciled
    /\ IF cursor_over_bounds(cursor)
       THEN /\ IF wheel_horizontal(delta)
               THEN /\ h_scroll_offset' =
                         RClamp(RSub(h_scroll_offset, wheel_step(delta)), R(0), max_h_scroll)
                    /\ UNCHANGED v_scroll_offset
               ELSE /\ v_scroll_offset' =
                         RClamp(RSub(v_scroll_offset, wheel_step(delta)), R(0), max_v_scroll)
                    /\ UNCHANGED h_scroll_offset
            /\ redraw' = TRUE
       ELSE /\ redraw' = FALSE
            /\ UNCHANGED <<h_scroll_offset, v_scroll_offset>>
    /\ DragUnchanged
    /\ UNCHANGED panicked

(* ------------------------------------------------------------------ *)
(* Event::Keyboard(KeyPressed { key }) if cursor.is_over(bounds)       *)
(* ------------------------------------------------------------------ *)

\* variant: the page is the widget's height less the header
page_size_of_bounds == RSub(bounds.height, R(HEADER_HEIGHT))

page_size == RSub(viewport_h, R(HEADER_HEIGHT))

key_v_scroll(key) ==
    CASE key = "PageDown" -> RClamp(RAdd(v_scroll_offset, page_size), R(0), max_v_scroll)
      [] key = "PageUp" -> RClamp(RSub(v_scroll_offset, page_size), R(0), max_v_scroll)
      [] key = "Home" -> R(0)
      [] key = "End" -> max_v_scroll
      [] key = "ArrowDown" -> RClamp(RAdd(v_scroll_offset, R(ROW_HEIGHT)), R(0), max_v_scroll)
      [] key = "ArrowUp" -> RClamp(RSub(v_scroll_offset, R(ROW_HEIGHT)), R(0), max_v_scroll)
      [] OTHER -> v_scroll_offset

key_h_scroll(key) ==
    CASE key = "ArrowRight" ->
            RClamp(RAdd(h_scroll_offset, R(MIN_COL_WIDTH)), R(0), max_h_scroll)
      [] key = "ArrowLeft" ->
            RClamp(RSub(h_scroll_offset, R(MIN_COL_WIDTH)), R(0), max_h_scroll)
      [] OTHER -> h_scroll_offset

KeyPressed(cursor, key) ==
    /\ UpdateFrame
    /\ col_widths' = reconciled
    /\ IF cursor_over_bounds(cursor)
       THEN /\ v_scroll_offset' = key_v_scroll(key)
            /\ h_scroll_offset' = key_h_scroll(key)
            /\ redraw' = TRUE
       ELSE /\ redraw' = FALSE
            /\ UNCHANGED <<h_scroll_offset, v_scroll_offset>>
    /\ DragUnchanged
    /\ UNCHANGED panicked

(* ------------------------------------------------------------------ *)
(* Any other event: the `_ => {}` arm                                  *)
(* ------------------------------------------------------------------ *)

OtherEvent ==
    /\ UpdateFrame
    /\ col_widths' = reconciled
    /\ redraw' = FALSE
    /\ DragUnchanged
    /\ UNCHANGED <<h_scroll_offset, v_scroll_offset, panicked>>

(* ------------------------------------------------------------------ *)
(* Table::draw                                                         *)
(* ------------------------------------------------------------------ *)

\* variant: the first row of the window is rounded up
first_visible_rounded_up == AsUsize(RCeil(RDiv(v_scroll_offset, R(ROW_HEIGHT))))

first_visible == AsUsize(RFloor(RDiv(v_scroll_offset, R(ROW_HEIGHT))))

\* variant: the header's height is not taken off the viewport
visible_count_no_header ==
    AsUsize(RCeil(RDiv(bounds.height, R(ROW_HEIGHT)))) + 1

visible_count ==
    AsUsize(RCeil(RDiv(RSub(bounds.height, R(HEADER_HEIGHT)), R(ROW_HEIGHT)))) + 1

row_y(row_idx) ==
    RSub(RAdd(RAdd(bounds.y, R(HEADER_HEIGHT)), R(row_idx * ROW_HEIGHT)), v_scroll_offset)

\* variant: the row loop does not stop at the loaded row count
drawn_rows_past_loaded ==
    { row_idx \in first_visible .. (first_visible + visible_count) :
        ~RLt(RAdd(row_y(row_idx), R(ROW_HEIGHT)), RAdd(bounds.y, R(HEADER_HEIGHT))) }

\* the row indices the row loop fills and draws
drawn_rows ==
    { row_idx \in first_visible .. (first_visible + visible_count) :
        /\ row_idx < loaded_row_count(table)
        /\ ~RLt(RAdd(row_y(row_idx), R(ROW_HEIGHT)), RAdd(bounds.y, R(HEADER_HEIGHT))) }

\* variant: the stripe follows the index within the loaded window
row_bg_by_loaded_index(row_idx) == IF row_idx % 2 = 0 THEN "even" ELSE "odd"

row_bg(row_idx) == IF (table.row_offset + row_idx) % 2 = 0 THEN "even" ELSE "odd"

\* x of column col_idx (0-based) in the header loop and in the cell loop
cell_x(col_idx) ==
    RAdd(RSub(bounds.x, h_scroll_offset), RSum(SubSeq(col_widths, 1, col_idx)))

\* variant: columns are culled against the full width of the bounds
drawn_cols_in_bounds ==
    { col_idx \in 0 .. (col_count(table) - 1) :
        /\ RLe(bounds.x, RAdd(cell_x(col_idx), col_widths[col_idx + 1]))
        /\ RLe(cell_x(col_idx), RAdd(bounds.x, bounds.width)) }

\* the columns whose header text and cells are drawn
drawn_cols ==
    { col_idx \in 0 .. (col_count(table) - 1) :
        /\ RLe(bounds.x, RAdd(cell_x(col_idx), col_widths[col_idx + 1]))
        /\ RLe(cell_x(col_idx), RAdd(bounds.x, viewport_w)) }

v_thumb_drawn == RLt(bounds.height, total_content_height(table))

h_thumb_drawn == RLt(viewport_w, total_content_width(col_widths))

NoFrame(why) ==
    [rendered |-> FALSE, why |-> why, n_widths |-> Len(col_widths),
     v_scroll |-> v_scroll_offset, h_scroll |-> h_scroll_offset,
     first_visible |-> 0, rows |-> {}, stripes |-> << >>, cols |-> {}, xs |-> << >>,
     v_thumb |-> FALSE, h_thumb |-> FALSE]

Draw ==
    /\ ~panicked
    /\ IF col_widths = << >>
       THEN /\ frame' = Some(NoFrame("empty"))
            /\ UNCHANGED panicked
       ELSE IF col_count(table) > Len(col_widths)
       THEN \* col_widths[col_idx] in the header loop: index out of bounds
            /\ frame' = Some(NoFrame("panic"))
            /\ panicked' = TRUE
       ELSE /\ frame' = Some([rendered |-> TRUE, why |-> "drawn",
                              n_widths |-> Len(col_widths),
                              v_scroll |-> v_scroll_offset, h_scroll |-> h_scroll_offset,
                              first_visible |-> first_visible,
                              rows |-> drawn_rows,
                              stripes |-> [r \in drawn_rows |-> row_bg(r)],
                              cols |-> drawn_cols,
                              xs |-> [c \in drawn_cols |-> cell_x(c)],
                              v_thumb |-> v_thumb_drawn, h_thumb |-> h_thumb_drawn])
            /\ UNCHANGED panicked
    /\ UNCHANGED <<table, bounds, tstate, redraw, nEvents>>

(* ------------------------------------------------------------------ *)
(* The host between frames: a new Table, a new layout                  *)
(* ------------------------------------------------------------------ *)

SetTable(t) ==
    /\ ~panicked
    /\ nEvents < MaxEvents
    /\ t # table
    /\ table' = t
    /\ nEvents' = nEvents + 1
    /\ frame' = None
    /\ UNCHANGED <<bounds, tstate, redraw, panicked>>

SetBounds(b) ==
    /\ ~panicked
    /\ nEvents < MaxEvents
    /\ b # bounds
    /\ bounds' = b
    /\ nEvents' = nEvents + 1
    /\ frame' = None
    /\ UNCHANGED <<table, tstate, redraw, panicked>>

(* ------------------------------------------------------------------ *)
(* Specifications                                                      *)
(* ------------------------------------------------------------------ *)

\* TableState::default()
InitState ==
    /\ col_widths = << >>
    /\ resizing_col = None
    /\ resize_drag_start_x = R(0)
    /\ resize_drag_start_width = R(0)
    /\ h_drag_start_offset = R(0)
    /\ h_drag_start_x = R(0)
    /\ h_dragging_scrollbar = FALSE
    /\ h_scroll_offset = R(0)
    /\ v_drag_start_offset = R(0)
    /\ v_drag_start_y = R(0)
    /\ v_dragging_scrollbar = FALSE
    /\ v_scroll_offset = R(0)
    /\ redraw = FALSE
    /\ frame = None
    /\ panicked = FALSE
    /\ nEvents = 0

\* TableS in ViewA: 4 columns of fixed width 80, 10 of 1,000,000 rows loaded,
\* in 800 x 600
Init ==
    /\ \/ table \in Tables /\ bounds \in Viewports
       \/ table = TableS /\ bounds = ViewA
    /\ InitState

InitHost == table \in Tables /\ bounds \in Viewports /\ InitState

Press == \E cursor \in Cursors : ButtonPressed(cursor)

Move == \E position \in CursorPoints : CursorMoved(position)

Release == ButtonReleased

\* the arm's guard fails for a cursor that is not over the bounds, whatever the
\* delta or the key: one of each stands for all
Wheel ==
    \/ \E delta \in WheelDeltas : WheelScrolled(Some(Pt(60, 60)), delta)
    \/ \E cursor \in HoverCursors : WheelScrolled(cursor, Lines(0, -3))

Key ==
    \/ \E key \in Keys : KeyPressed(Some(Pt(60, 60)), key)
    \/ \E cursor \in HoverCursors : KeyPressed(cursor, "End")

Other == OtherEvent

HostTable == \E t \in HostTables : SetTable(t)

HostBounds == \E b \in Viewports : SetBounds(b)

\* a fixed table in a fixed layout
Next == Press \/ Move \/ Release \/ Wheel \/ Key \/ Other \/ Draw

Spec == Init /\ [][Next]_vars

\* the host may replace the table and the layout between events
NextHost == Next \/ HostTable \/ HostBounds

SpecHost == InitHost /\ [][NextHost]_vars

\* The widget in use: the End key was handled for the table t0 (widths
\* reconciled, rows scrolled to the bottom, redraw requested) and the host then
\* built the Table for the next frame, t0 again or another one.
InitScrolled ==
    /\ table \in HostTables /\ bounds \in Viewports
    /\ \E t0 \in Tables :
          /\ col_widths = col_widths_of(t0, << >>, RSub(bounds.width, R(V_SCROLLBAR_WIDTH)))
          /\ v_scroll_offset =
                RMax(RSub(total_content_height(t0),
                          RSub(bounds.height, R(H_SCROLLBAR_HEIGHT))), R(0))
    /\ resizing_col = None
    /\ resize_drag_start_x = R(0)
    /\ resize_drag_start_width = R(0)
    /\ h_drag_start_offset = R(0)
    /\ h_drag_start_x = R(0)
    /\ h_dragging_scrollbar = FALSE
    /\ h_scroll_offset = R(0)
    /\ v_drag_start_offset = R(0)
    /\ v_drag_start_y = R(0)
    /\ v_dragging_scrollbar = FALSE
    /\ redraw = TRUE
    /\ frame = None
    /\ panicked = FALSE
    /\ nEvents = 0

\* a fixed table in a fixed layout, the widget having been scrolled before
SpecScrolled == InitScrolled /\ [][Next]_vars

(* ------------------------------------------------------------------ *)
(* Properties                                                          *)
(* ------------------------------------------------------------------ *)

Idle == resizing_col = None /\ ~v_dragging_scrollbar /\ ~h_dragging_scrollbar

\* max(content_height - (viewport_height - h_scrollbar_height), 0), the viewport
\* being the widget's bounds
MaxScrollY ==
    RMax(RSub(R(HEADER_HEIGHT + table.total_row_count * ROW_HEIGHT),
              RSub(bounds.height, R(H_SCROLLBAR_HEIGHT))), R(0))

\* max(sum(col_widths) - (viewport_width - v_scrollbar_width), 0) for the widths cw
MaxScrollXOf(cw) ==
    RMax(RSub(RSum(cw), RSub(bounds.width, R(V_SCROLLBAR_WIDTH))), R(0))

MaxScrollX == MaxScrollXOf(col_widths)

\* TRUE when the cursor is not over the widget's bounds
CursorOutside(cursor) ==
    \/ cursor = None
    \/ LET p == Unwrap(cursor)
       IN  \/ RLt(p.x, bounds.x) \/ RLe(RAdd(bounds.x, bounds.width), p.x)
           \/ RLt(p.y, bounds.y) \/ RLe(RAdd(bounds.y, bounds.height), p.y)

\* C1: for a fixed table and fixed bounds, after any sequence of press, move,
\* release, wheel and key events both scroll offsets lie in [0, max_scroll],
\* max_scroll being computed from the column widths of the same state.
C1_ScrollOffsetsWithinBounds ==
    /\ RLe(R(0), v_scroll_offset) /\ RLe(v_scroll_offset, MaxScrollY)
    /\ RLe(R(0), h_scroll_offset) /\ RLe(h_scroll_offset, MaxScrollX)

\* C1 witness: a resize drag has shrunk a column to the minimum width and the
\* horizontal offset sits exactly on the new, smaller, positive max_scroll_x
C1_Witness ==
    /\ IsSome(resizing_col)
    /\ \E i \in 1..Len(col_widths) : col_widths[i] = R(MIN_COL_WIDTH)
    /\ RLt(R(0), MaxScrollX)
    /\ h_scroll_offset = MaxScrollX

\* C2: at most one drag mode is active in every reachable state.
C2_AtMostOneDragMode ==
    /\ ~(IsSome(resizing_col) /\ v_dragging_scrollbar)
    /\ ~(IsSome(resizing_col) /\ h_dragging_scrollbar)
    /\ ~(v_dragging_scrollbar /\ h_dragging_scrollbar)

\* C3: a left-button release handled in a non-Idle state leaves the widget Idle.
C3_ReleaseReturnsToIdle == [][(~Idle /\ ButtonReleased) => Idle']_vars

\* C4: a wheel event handled while a drag mode is active, or while the
\* cursor is outside the bounds, leaves both scroll offsets unchanged.
C4_WheelOnlyWhileIdle ==
    [][\A cursor \in HoverCursors, delta \in WheelDeltas :
          (WheelScrolled(cursor, delta) /\ (~Idle \/ CursorOutside(cursor)))
              => UNCHANGED <<h_scroll_offset, v_scroll_offset>>]_vars

\* the widths differ at most at the column being resized
OnlyResizedColumnChanges ==
    /\ Len(col_widths') = Len(col_widths)
    /\ \A i \in 1..Len(col_widths) :
          i # Unwrap(resizing_col) + 1 => col_widths'[i] = col_widths[i]

\* C5 as stated: a cursor move handled while a column is being resized changes
\* col_widths only at that column, leaves scroll_offset_y alone, and afterwards
\* scroll_offset_x <= max(sum(col_widths) - viewport_width, 0), the viewport
\* being the widget's bounds.
C5_ResizeMoveAsStated ==
    [][\A position \in CursorPoints :
          (IsSome(resizing_col) /\ CursorMoved(position))
              => /\ OnlyResizedColumnChanges
                 /\ RLe(h_scroll_offset',
                        RMax(RSub(RSum(col_widths'), bounds.width), R(0)))
                 /\ v_scroll_offset' = v_scroll_offset]_vars

\* C5 amended: the same, with the bound
\* scroll_offset_x <= max(sum(col_widths) - (viewport_width - v_scrollbar_width), 0)
\* computed with the new widths.
C5_ResizeMoveReclamps ==
    [][\A position \in CursorPoints :
          (IsSome(resizing_col) /\ CursorMoved(position))
              => /\ OnlyResizedColumnChanges
                 /\ RLe(h_scroll_offset', MaxScrollXOf(col_widths'))
                 /\ v_scroll_offset' = v_scroll_offset]_vars

\* C5 witness: during a resize a move has changed the resized column's width, the
\* other columns still differ from it, and the horizontal offset is positive and
\* equal to the max_scroll_x of the new widths
C5_Witness ==
    /\ IsSome(resizing_col)
    /\ Unwrap(resizing_col) < Len(col_widths)
    /\ col_widths[Unwrap(resizing_col) + 1] # resize_drag_start_width
    /\ \E j \in 1..Len(col_widths) : col_widths[j] = resize_drag_start_width
    /\ RLt(R(0), h_scroll_offset)
    /\ h_scroll_offset = MaxScrollX

\* C6: every column width is at least the minimum column width, hence
\* sum(col_widths) >= column_count * minimum_width, in every reachable state.
C6_WidthsAtLeastMinimum ==
    /\ \A i \in 1..Len(col_widths) : RLe(R(MIN_COL_WIDTH), col_widths[i])
    /\ RLe(R(Len(col_widths) * MIN_COL_WIDTH), RSum(col_widths))

\* C6 witness: a resize drag pulled a column far to the left and its width
\* stopped at the minimum
C6_Witness ==
    /\ IsSome(resizing_col)
    /\ Unwrap(resizing_col) < Len(col_widths)
    /\ col_widths[Unwrap(resizing_col) + 1] = R(MIN_COL_WIDTH)
    /\ RLt(R(MIN_COL_WIDTH), resize_drag_start_width)

\* C7: whenever draw renders, col_widths.len() equals the current column count and
\* no read of col_widths is out of range, also right after the host replaced
\* the table.
C7_DrawSeesReconciledWidths ==
    IsSome(frame) =>
        /\ Unwrap(frame).why # "panic"
        /\ Unwrap(frame).rendered => Unwrap(frame).n_widths = col_count(table)

\* C8: the scroll offsets a frame is rendered with lie in [0, max_scroll], with
\* max_scroll computed for that frame from the current table and bounds.
C8_RenderedOffsetsWithinBounds ==
    (IsSome(frame) /\ Unwrap(frame).rendered) =>
        /\ RLe(R(0), Unwrap(frame).v_scroll) /\ RLe(Unwrap(frame).v_scroll, MaxScrollY)
        /\ RLe(R(0), Unwrap(frame).h_scroll) /\ RLe(Unwrap(frame).h_scroll, MaxScrollX)

\* the length of the track minus the length of the thumb, per axis
ThumbTravelV ==
    RSub(RSub(RSub(bounds.height, R(HEADER_HEIGHT)), R(H_SCROLLBAR_HEIGHT)),
         v_thumb("height"))

ThumbTravelH == RSub(RSub(bounds.width, R(V_SCROLLBAR_WIDTH)), h_thumb("width"))

\* the thumb's distance from the start of its track when the drag began
\* (anchor offset a of max_scroll m), moved by the cursor's displacement delta
CarriedThumb(travel, a, m, delta) == RAdd(RMul(RDiv(a, m), travel), delta)

\* C9: during a thumb drag with max_scroll > 0, a move that carries the thumb to or
\* past the end of its track sets the offset to max_scroll, and a move that
\* carries it to or before the start sets it to 0.
C9_ThumbDragReachesExtremes ==
    [][\A position \in CursorPoints :
          /\ (v_dragging_scrollbar /\ RLt(R(0), MaxScrollY) /\ CursorMoved(position))
                => LET at == CarriedThumb(ThumbTravelV, v_drag_start_offset, MaxScrollY,
                                          RSub(position.y, v_drag_start_y))
                   IN  /\ RLe(ThumbTravelV, at) => v_scroll_offset' = MaxScrollY
                       /\ RLe(at, R(0)) => v_scroll_offset' = R(0)
          /\ (h_dragging_scrollbar /\ RLt(R(0), MaxScrollX) /\ CursorMoved(position))
                => LET at == CarriedThumb(ThumbTravelH, h_drag_start_offset, MaxScrollX,
                                          RSub(position.x, h_drag_start_x))
                   IN  /\ RLe(ThumbTravelH, at) => h_scroll_offset' = MaxScrollX
                       /\ RLe(at, R(0)) => h_scroll_offset' = R(0)]_vars

\* a wheel-down of k lines: ScrollDelta::Lines { x: 0, y: -k }
IsWheelDown(delta) == delta.unit = "Lines" /\ delta.x = R(0) /\ RLe(delta.y, R(0))

Scenario == table = TableS /\ bounds = ViewA

\* C10: from Idle at scroll_offset_y = 0 with the cursor over the widget, a
\* wheel-down of k lines sets scroll_offset_y = min(k * row_height, max_scroll_y)
\* and leaves scroll_offset_x alone; every render has
\* first_visible_row = floor(scroll_offset_y / row_height) and draws no row index
\* >= the loaded row count.  In the scenario (800 x 600, 4 columns of width 80,
\* 1,000,000 rows, 10 loaded, k = 3): scroll_offset_y = 84, first_visible_row = 3,
\* rows drawn 3..9.
C10_WheelDownThenRender ==
    /\ [][\A cursor \in HoverCursors, delta \in WheelDeltas :
            (/\ Idle /\ v_scroll_offset = R(0) /\ ~CursorOutside(cursor)
             /\ IsWheelDown(delta) /\ WheelScrolled(cursor, delta))
                => /\ v_scroll_offset' =
                        RMin(RMul(RNeg(delta.y), R(ROW_HEIGHT)), MaxScrollY)
                   /\ h_scroll_offset' = h_scroll_offset
                   /\ (Scenario /\ delta = Lines(0, -3)) => v_scroll_offset' = R(84)]_vars
    /\ [](IsSome(frame) /\ Unwrap(frame).rendered =>
            LET f == Unwrap(frame)
            IN  /\ f.first_visible * ROW_HEIGHT <= RFloor(f.v_scroll)
                /\ RLt(f.v_scroll, R((f.first_visible + 1) * ROW_HEIGHT))
                /\ \A r \in f.rows : r < loaded_row_count(table)
                /\ (Scenario /\ f.v_scroll = R(84))
                       => f.first_visible = 3 /\ f.rows = 3..9)

\* C10 witness: the scenario's frame, rendered right after the single wheel event
C10_Witness ==
    /\ Scenario /\ nEvents = 1 /\ IsSome(frame)
    /\ v_scroll_offset = R(84) /\ h_scroll_offset = R(0)
    /\ Unwrap(frame).rendered
    /\ Unwrap(frame).first_visible = 3
    /\ Unwrap(frame).rows = 3..9

\* on-screen x of the right boundary of column i (0-based) for the widths cw
ColumnRightOnScreen(cw, i) ==
    RSub(RAdd(bounds.x, RSum(SubSeq(cw, 1, i + 1))), h_scroll_offset)

\* the header band: bounds.y <= y <= bounds.y + header_height
InHeaderBand(y) == RLe(bounds.y, y) /\ RLe(y, RAdd(bounds.y, R(HEADER_HEIGHT)))

\* the cursor is in the header band, within the grab zone of column i's boundary
OnDivider(cw, i, p) ==
    /\ i < Len(cw)
    /\ InHeaderBand(p.y)
    /\ RLe(RAbs(RSub(p.x, ColumnRightOnScreen(cw, i))), R(COL_RESIZE_GRAB_ZONE))

OnlyResizing == IsSome(resizing_col) /\ ~v_dragging_scrollbar /\ ~h_dragging_scrollbar

\* C11: from Idle a press on the divider of column i enters
\* ResizingColumn{i, press x, col_widths[i]}; a move by dx during the resize sets
\* col_widths[i] = max(anchor_width + dx, minimum_width); the release returns to
\* Idle; and no step other than a move of a resize drag changes the widths, a
\* render included, while the column count is unchanged.
C11_ResizeScenario ==
    [][/\ \A p \in CursorPoints, i \in 0..3 :
            (Idle /\ OnDivider(col_widths', i, p) /\ ButtonPressed(Some(p)))
                => /\ resizing_col' = Some(i)
                   /\ resize_drag_start_x' = p.x
                   /\ resize_drag_start_width' = col_widths'[i + 1]
                   /\ ~v_dragging_scrollbar' /\ ~h_dragging_scrollbar'
       /\ \A position \in CursorPoints :
            (OnlyResizing /\ CursorMoved(position))
                => LET dx == RSub(position.x, resize_drag_start_x)
                   IN  col_widths'[Unwrap(resizing_col) + 1] =
                           RMax(RAdd(resize_drag_start_width, dx), R(MIN_COL_WIDTH))
       /\ (OnlyResizing /\ ButtonReleased) => Idle'
       /\ (/\ Len(col_widths) = col_count(table)
           /\ ~(IsSome(resizing_col) /\ \E position \in CursorPoints : CursorMoved(position)))
                => col_widths' = col_widths]_vars

\* C11 witness: press on the divider of column 0 at x = 90, move by +20 px,
\* release, render: Idle again, the column is 20 px wider than its neighbour's
\* default width and the frame is drawn
C11_Witness ==
    /\ Idle /\ nEvents = 3
    /\ resize_drag_start_x = R(90)
    /\ Len(col_widths) = 2
    /\ col_widths[1] = RAdd(resize_drag_start_width, R(20))
    /\ col_widths[2] = resize_drag_start_width
    /\ IsSome(frame) /\ Unwrap(frame).rendered

\* first_visible_row = floor(scroll_offset_y / row_height) for the offset v
FirstVisibleRow(v) == RFloor(RDiv(v, R(ROW_HEIGHT)))

\* visible_row_count = ceil(viewport_height / row_height) + 1, the viewport being
\* the widget's bounds
VisibleRowCount == RCeil(RDiv(bounds.height, R(ROW_HEIGHT))) + 1

\* C12: every row a render emits has an index r with
\* first_visible_row <= r < first_visible_row + visible_row_count and
\* r < loaded row count: rows past the loaded data are not drawn.
C12_DrawnRowsInWindow ==
    (IsSome(frame) /\ Unwrap(frame).rendered) =>
        LET f == Unwrap(frame)
        IN  \A r \in f.rows :
               /\ FirstVisibleRow(f.v_scroll) <= r
               /\ r < FirstVisibleRow(f.v_scroll) + VisibleRowCount
               /\ r < loaded_row_count(table)

\* C12 witness: a frame scrolled past row 0 whose window reaches beyond the loaded
\* rows: the last loaded row is drawn and nothing after it
C12_Witness ==
    /\ IsSome(frame) /\ Unwrap(frame).rendered
    /\ LET f == Unwrap(frame)
       IN  /\ FirstVisibleRow(f.v_scroll) > 0
           /\ FirstVisibleRow(f.v_scroll) + VisibleRowCount > loaded_row_count(table)
           /\ (loaded_row_count(table) - 1) \in f.rows
           /\ table.total_row_count > loaded_row_count(table)

\* C13: the stripe of a drawn row depends on its absolute index
\* R = row_offset + row_index only: even R has the even stripe, odd R the odd one,
\* whatever the scroll position and the row_offset.
C13_StripeByAbsoluteIndex ==
    (IsSome(frame) /\ Unwrap(frame).rendered) =>
        LET f == Unwrap(frame)
        IN  \A r \in f.rows :
               LET abs_index == table.row_offset + r
               IN  /\ abs_index % 2 = 0 => f.stripes[r] = "even"
                   /\ abs_index % 2 = 1 => f.stripes[r] = "odd"

\* C13 witness: a scrolled frame of a table whose loaded window starts at an odd
\* row_offset: a row with an odd index in the window has the even stripe
C13_Witness ==
    /\ IsSome(frame) /\ Unwrap(frame).rendered
    /\ table.row_offset % 2 = 1
    /\ RLt(R(0), Unwrap(frame).v_scroll)
    /\ \E r \in Unwrap(frame).rows : r % 2 = 1 /\ Unwrap(frame).stripes[r] = "even"

\* the default width with the floor `floor` and the width `width` to share
DefaultWidth(floor, width) ==
    IF IsSome(table.col_width)
    THEN RMax(Unwrap(table.col_width), R(floor))
    ELSE RMax(RDiv(width, R(col_count(table))), R(floor))

\* a step (re)initialises col_widths: their number differed from the column count
Reinitialises == Len(col_widths) # col_count(table) /\ col_widths' # col_widths

\* column i (1-based) is the one a move of a resize drag sets in this step
SetByResizeMove(i) ==
    /\ IsSome(resizing_col) /\ i = Unwrap(resizing_col) + 1
    /\ \E position \in CursorPoints : CursorMoved(position)

\* C14 as stated: when col_widths is (re)initialised every column gets
\* max(fixed_width, minimum_width) if a fixed width is configured, otherwise
\* max(viewport_width / column_count, minimum_width), the minimum being the one
\* that limits a resized column and the viewport the widget's bounds.
C14_DefaultFlooredAtMinimum ==
    [][Reinitialises =>
          /\ Len(col_widths') = col_count(table)
          /\ \A i \in 1..Len(col_widths') :
                ~SetByResizeMove(i)
                    => col_widths'[i] = DefaultWidth(MIN_COL_WIDTH, bounds.width)]_vars

\* C14 amended: every column gets max(fixed_width, default_width) if a fixed
\* width is configured, otherwise
\* max((viewport_width - v_scrollbar_width) / column_count, default_width), where
\* default_width = 80 is a floor of its own, above the minimum column width 28
\* that limits a resized column.
C14_DefaultFlooredAtDefault ==
    [][Reinitialises =>
          /\ Len(col_widths') = col_count(table)
          /\ \A i \in 1..Len(col_widths') :
                ~SetByResizeMove(i)
                    => col_widths'[i] =
                          DefaultWidth(DEFAULT_COL_WIDTH,
                                       RSub(bounds.width, R(V_SCROLLBAR_WIDTH)))]_vars

\* C14 witness: after an initialisation the three columns of a table of fixed
\* width 40 are 80 wide each
C14_Witness ==
    /\ table = TableU /\ Unwrap(table.col_width) = R(40)
    /\ nEvents >= 1
    /\ col_widths = <<R(80), R(80), R(80)>>

\* C15: in a step that starts with as many widths as the table has columns, no
\* width changes except that of the column a resize move sets: an event, a new
\* viewport, a new table of the same column count (other rows, row_offset or
\* fixed width) all leave the widths alone; a reset needs a differing length.
C15_ResetOnlyOnCountChange ==
    [][Len(col_widths) = col_count(table) =>
          /\ Len(col_widths') = Len(col_widths)
          /\ \A i \in 1..Len(col_widths) :
                ~SetByResizeMove(i) => col_widths'[i] = col_widths[i]]_vars

\* C15 witness: the host has switched to a table of the same column count whose
\* default width is 100, and the widths are still the ones of the first table
\* (80) but for the column being resized (160)
C15_Witness ==
    /\ table = TableV
    /\ default_col_width(table, viewport_w) = R(100)
    /\ resizing_col = Some(0)
    /\ col_widths = <<R(160), R(80)>>

\* the step is a call of update: an event was handled for the same table and layout
UpdateStep == nEvents' = nEvents + 1 /\ table' = table /\ bounds' = bounds

\* the state that decides what a render shows
Rendered == <<col_widths, h_scroll_offset, v_scroll_offset,
              resizing_col, v_dragging_scrollbar, h_dragging_scrollbar>>

\* C16: every update step that changes a scroll offset, a column width (the reset
\* of col_widths to defaults included) or the drag mode requests a redraw in that
\* step.
C16_RedrawOnEveryChange ==
    [][(UpdateStep /\ Rendered' # Rendered) => redraw']_vars

\* the columns (0-based) whose divider the point p hits, for the widths cw
DividersHit(cw, p) == {i \in 0..(Len(cw) - 1) : OnDivider(cw, i, p)}

InVThumb(p) == contains(v_thumb("x"), v_thumb("y"), v_thumb("width"), v_thumb("height"), p)

InHThumb(p) == contains(h_thumb("x"), h_thumb("y"), h_thumb("width"), h_thumb("height"), p)

\* C17: a press while Idle is decided in the order divider, vertical thumb,
\* horizontal thumb: a divider hit enters ResizingColumn with anchors
\* (press x, col_widths[index]) even inside a thumb rectangle; otherwise a
\* vertical-thumb hit enters DraggingVerticalThumb with anchors
\* (press y, scroll_offset_y); otherwise a horizontal-thumb hit enters
\* DraggingHorizontalThumb with anchors (press x, scroll_offset_x); with no hit,
\* or no cursor position, the widget stays Idle.  The press changes neither
\* scroll offset and no column width.
C17_PressPriority ==
    [][/\ \A p \in CursorPoints :
            (Idle /\ UpdateStep /\ ButtonPressed(Some(p)))
                => LET hit == DividersHit(col_widths', p)
                   IN  /\ h_scroll_offset' = h_scroll_offset
                       /\ v_scroll_offset' = v_scroll_offset
                       /\ Len(col_widths) = col_count(table) => col_widths' = col_widths
                       /\ IF hit # {}
                          THEN LET i == CHOOSE i \in hit : \A j \in hit : i <= j
                               IN  /\ resizing_col' = Some(i)
                                   /\ resize_drag_start_x' = p.x
                                   /\ resize_drag_start_width' = col_widths'[i + 1]
                                   /\ ~v_dragging_scrollbar' /\ ~h_dragging_scrollbar'
                          ELSE IF InVThumb(p)
                          THEN /\ v_dragging_scrollbar'
                               /\ v_drag_start_y' = p.y
                               /\ v_drag_start_offset' = v_scroll_offset
                               /\ resizing_col' = None /\ ~h_dragging_scrollbar'
                          ELSE IF InHThumb(p)
                          THEN /\ h_dragging_scrollbar'
                               /\ h_drag_start_x' = p.x
                               /\ h_drag_start_offset' = h_scroll_offset
                               /\ resizing_col' = None /\ ~v_dragging_scrollbar'
                          ELSE Idle'
       /\ (Idle /\ ButtonPressed(None)) => Idle']_vars

\* C17 witness: scrolled right by 60 px, the press at (112, 52) lies within the
\* grab zone of column 1's divider and inside the vertical thumb: the widget
\* resizes column 1 and drags no thumb
C17_Witness ==
    /\ nEvents = 2 /\ h_scroll_offset = R(60)
    /\ resizing_col = Some(1) /\ resize_drag_start_x = R(112)
    /\ ~v_dragging_scrollbar /\ ~h_dragging_scrollbar
    /\ OnDivider(col_widths, 1, Pt(112, 52))
    /\ InVThumb(Pt(112, 52))

\* x clamped to [0, m]
Clamped(x, m) == RMax(R(0), RMin(x, m))

\* the offsets a key press over the bounds is to leave, for a page of `page` px
KeyOffsetY(key, page) ==
    CASE key = "PageDown" -> Clamped(RAdd(v_scroll_offset, page), MaxScrollY)
      [] key = "PageUp" -> Clamped(RSub(v_scroll_offset, page), MaxScrollY)
      [] key = "Home" -> R(0)
      [] key = "End" -> MaxScrollY
      [] key = "ArrowDown" -> Clamped(RAdd(v_scroll_offset, R(ROW_HEIGHT)), MaxScrollY)
      [] key = "ArrowUp" -> Clamped(RSub(v_scroll_offset, R(ROW_HEIGHT)), MaxScrollY)
      [] OTHER -> v_scroll_offset

KeyOffsetX(key) ==
    CASE key = "ArrowRight" ->
            Clamped(RAdd(h_scroll_offset, R(MIN_COL_WIDTH)), MaxScrollXOf(col_widths'))
      [] key = "ArrowLeft" ->
            Clamped(RSub(h_scroll_offset, R(MIN_COL_WIDTH)), MaxScrollXOf(col_widths'))
      [] OTHER -> h_scroll_offset

\* the drag mode and its anchors are as before the step
SameDrag ==
    UNCHANGED <<resizing_col, resize_drag_start_x, resize_drag_start_width,
                v_dragging_scrollbar, v_drag_start_y, v_drag_start_offset,
                h_dragging_scrollbar, h_drag_start_x, h_drag_start_offset>>

\* widths that were reconciled before the step are the same after it
SameWidths == Len(col_widths) = col_count(table) => col_widths' = col_widths

\* the effect of every key press, for a page of `page` px
KeyStep(page) ==
    \A cursor \in HoverCursors, key \in Keys :
        KeyPressed(cursor, key) =>
            /\ IF CursorOutside(cursor)
               THEN UNCHANGED <<h_scroll_offset, v_scroll_offset>>
               ELSE /\ v_scroll_offset' = KeyOffsetY(key, page)
                    /\ h_scroll_offset' = KeyOffsetX(key)
            /\ SameDrag
            /\ SameWidths

\* C18 as stated: with the cursor over the bounds PageDown/PageUp add/subtract
\* (viewport_height - header_height), the viewport being the widget's bounds,
\* Home sets scroll_offset_y to 0, End to max_scroll_y, ArrowDown/ArrowUp
\* add/subtract one row height, ArrowRight/ArrowLeft add/subtract one minimum
\* column width to scroll_offset_x, every result clamped to [0, max_scroll]; any
\* other key, and any key with the cursor outside the bounds, leaves offsets,
\* widths and drag mode unchanged.
C18_KeysPageOfBounds ==
    [][KeyStep(RSub(bounds.height, R(HEADER_HEIGHT)))]_vars

\* C18 amended: the same with PageDown/PageUp adding/subtracting
\* (viewport_height - h_scrollbar_height - header_height).
C18_KeysPageBelowHeader ==
    [][KeyStep(RSub(RSub(bounds.height, R(H_SCROLLBAR_HEIGHT)), R(HEADER_HEIGHT)))]_vars

\* C18 witness: one PageDown from the top in 800 x 600 with 1,000,000 rows: the
\* offset is 600 - 12 - 32 = 556, far below max_scroll_y
C18_Witness ==
    /\ Scenario /\ nEvents = 1
    /\ v_scroll_offset = R(556)
    /\ RLt(v_scroll_offset, MaxScrollY)

\* the delta of the axis `axis` in pixels: lines are scaled by one row height
\* (vertical) or by the minimum column width (horizontal), pixels are not scaled
WheelPixels(delta, axis) ==
    IF delta.unit = "Lines"
    THEN IF axis = "x" THEN RMul(delta.x, R(MIN_COL_WIDTH)) ELSE RMul(delta.y, R(ROW_HEIGHT))
    ELSE IF axis = "x" THEN delta.x ELSE delta.y

\* C19: a wheel event over the bounds changes only the offset of the axis whose
\* delta has the larger magnitude (horizontal iff |x| > |y|), to the old offset
\* less the delta (lines scaled by the row height resp. the minimum column
\* width, pixels unscaled), clamped to [0, max_scroll] of that axis; the other
\* offset, the column widths and the drag mode are unchanged.
C19_WheelDrivesDominantAxis ==
    [][\A cursor \in HoverCursors, delta \in WheelDeltas :
          WheelScrolled(cursor, delta) =>
              /\ IF CursorOutside(cursor)
                 THEN UNCHANGED <<h_scroll_offset, v_scroll_offset>>
                 ELSE IF RLt(RAbs(delta.y), RAbs(delta.x))
                 THEN /\ h_scroll_offset' =
                            Clamped(RSub(h_scroll_offset, WheelPixels(delta, "x")),
                                    MaxScrollXOf(col_widths'))
                      /\ v_scroll_offset' = v_scroll_offset
                 ELSE /\ v_scroll_offset' =
                            Clamped(RSub(v_scroll_offset, WheelPixels(delta, "y")),
                                    MaxScrollY)
                      /\ h_scroll_offset' = h_scroll_offset
              /\ SameDrag
              /\ SameWidths]_vars

\* C19 witness: one wheel event of 60 px to the right over three columns of 80:
\* scroll_offset_x = 60, below max_scroll_x = 140, scroll_offset_y untouched
C19_Witness ==
    /\ table = TableU /\ nEvents = 1
    /\ h_scroll_offset = R(60) /\ RLt(h_scroll_offset, MaxScrollX)
    /\ v_scroll_offset = R(0)

\* left edge of column c (0-based) in content coordinates
ColumnLeft(c) == RSum(SubSeq(col_widths, 1, c))

\* the extent [left - scroll_offset_x, left - scroll_offset_x + width] of column c
\* under the offset h meets [0, width_of_view]
ColumnInView(c, h, width_of_view) ==
    /\ RLe(R(0), RAdd(RSub(ColumnLeft(c), h), col_widths[c + 1]))
    /\ RLe(RSub(ColumnLeft(c), h), width_of_view)

\* the columns of a rendered frame are those in view, each at its own x
ColumnsCulled(width_of_view) ==
    (IsSome(frame) /\ Unwrap(frame).rendered) =>
        LET f == Unwrap(frame)
        IN  \A c \in 0 .. (col_count(table) - 1) :
               /\ c \in f.cols <=> ColumnInView(c, f.h_scroll, width_of_view)
               /\ c \in f.cols =>
                     f.xs[c] = RAdd(bounds.x, RSub(ColumnLeft(c), f.h_scroll))

\* C20 as stated: a column is drawn iff its extent
\* [left - scroll_offset_x, left - scroll_offset_x + width] meets
\* [0, viewport_width], the viewport being the widget's bounds; a skipped column
\* does not shift the x of the columns after it.
C20_ColumnsCulledAtBounds == ColumnsCulled(bounds.width)

\* C20 amended: the same with the extent [0, viewport_width - v_scrollbar_width].
C20_ColumnsCulledAtViewport == ColumnsCulled(RSub(bounds.width, R(V_SCROLLBAR_WIDTH)))

\* C20 witness: scrolled right past the first column: column 0 is skipped and
\* column 1 is drawn, starting left of the widget at bounds.x + 80 - scroll_offset_x
C20_Witness ==
    /\ IsSome(frame) /\ Unwrap(frame).rendered
    /\ RLt(R(80), h_scroll_offset)
    /\ 0 \notin Unwrap(frame).cols
    /\ 1 \in Unwrap(frame).cols
    /\ Unwrap(frame).xs[1] = RSub(RAdd(bounds.x, R(80)), h_scroll_offset)
    /\ RLt(Unwrap(frame).xs[1], bounds.x)

\* C21: a drag mode, once entered, stays active until a left-button release is
\* handled: no move, wheel, key, press or other event, no render and no change
\* of viewport or table by the host turns a non-Idle state into Idle; each
\* active mode stays active.
C21_DragEndsOnlyOnRelease ==
    [][(~Idle /\ ~ButtonReleased) =>
          /\ ~Idle'
          /\ IsSome(resizing_col) => IsSome(resizing_col')
          /\ v_dragging_scrollbar => v_dragging_scrollbar'
          /\ h_dragging_scrollbar => h_dragging_scrollbar']_vars

\* C21 witness: a resize drag entered at x = 90 is still active after the host
\* switched to another table and a wheel event scrolled the rows
C21_Witness ==
    /\ table = TableV /\ nEvents = 3
    /\ resizing_col = Some(0) /\ resize_drag_start_x = R(90)
    /\ RLt(R(0), v_scroll_offset)

\* C22: a left press whose cursor position lies outside the widget's bounds
\* never changes the widget state: it enters no drag mode (not ResizingColumn
\* through a divider whose content x matches a cursor x left or right of the
\* bounds either), changes no offset and no reconciled width, and requests no
\* redraw.
C22_PressOutsideIgnored ==
    [][\A p \in CursorPoints :
          (CursorOutside(Some(p)) /\ ButtonPressed(Some(p)))
              => /\ SameDrag
                 /\ UNCHANGED <<h_scroll_offset, v_scroll_offset>>
                 /\ SameWidths
                 /\ ~redraw']_vars

\* C23: a press enters DraggingVerticalThumb (resp. DraggingHorizontalThumb) only
\* in a state where draw draws that axis's thumb, i.e. where the content exceeds
\* the viewport in that axis: the rectangle hit-tested on press is never that of
\* a thumb that is not rendered.
C23_ThumbHitOnlyWhereDrawn ==
    [][\A p \in CursorPoints :
          ButtonPressed(Some(p))
              => /\ (~v_dragging_scrollbar /\ v_dragging_scrollbar') => v_thumb_drawn'
                 /\ (~h_dragging_scrollbar /\ h_dragging_scrollbar') => h_thumb_drawn']_vars

\* C24: in every reachable state with resizing_col = Some(i), i < col_widths.len(),
\* also after the host changed the column count during the resize drag; a cursor
\* move during a resize therefore never indexes col_widths out of range.
C24_ResizedColumnInRange ==
    /\ [](IsSome(resizing_col) => Unwrap(resizing_col) < Len(col_widths))
    /\ [][\A position \in CursorPoints :
            (IsSome(resizing_col) /\ CursorMoved(position)) => ~panicked']_vars

\* the offset a thumb drag with the anchor offset a is to set when the cursor is
\* d px from the press position: a + d / max(travel, 1) * m, clamped to [0, m]
DraggedOffset(a, d, travel, m) ==
    Clamped(RAdd(a, RMul(RDiv(d, RMax(travel, R(1))), m)), m)

\* the value the move to `position` sets is the one the anchors and the position
\* give, and at the press position it is the anchor itself
MoveFollowsAnchors(position) ==
    IF IsSome(resizing_col)
    THEN LET i == Unwrap(resizing_col) + 1
             dx == RSub(position.x, resize_drag_start_x)
         IN  ~panicked' =>
               /\ col_widths'[i] = RMax(RAdd(resize_drag_start_width, dx), R(MIN_COL_WIDTH))
               /\ dx = R(0) => col_widths'[i] = resize_drag_start_width
    ELSE IF v_dragging_scrollbar
    THEN LET dy == RSub(position.y, v_drag_start_y)
         IN  /\ v_scroll_offset' =
                    DraggedOffset(v_drag_start_offset, dy, ThumbTravelV, MaxScrollY)
             /\ dy = R(0) => v_scroll_offset' = v_drag_start_offset
    ELSE IF h_dragging_scrollbar
    THEN LET dx == RSub(position.x, h_drag_start_x)
         IN  /\ h_scroll_offset' =
                    DraggedOffset(h_drag_start_offset, dx, ThumbTravelH,
                                  MaxScrollXOf(col_widths'))
             /\ dx = R(0) => h_scroll_offset' = h_drag_start_offset
    ELSE TRUE

\* C25: within one drag (only cursor moves after the press, table and viewport
\* unchanged) the value a move sets depends only on the anchors captured at the
\* press and on the cursor position, not on the moves before it: the same
\* position gives the same scroll offset (thumb drag) or column width (resize),
\* and the press position gives back the anchor offset or the anchor width.
C25_DragValueFromAnchors ==
    [][\A position \in CursorPoints :
          CursorMoved(position) => MoveFollowsAnchors(position)]_vars

\* top of row r relative to the widget's top, for the offset v
RowTop(r, v) == RSub(R(HEADER_HEIGHT + r * ROW_HEIGHT), v)

\* the extent [top, top + row_height) of row r meets the row clip region, which
\* lies below the header and above the horizontal scrollbar strip
RowInClip(r, v) ==
    /\ RLt(RowTop(r, v), RSub(bounds.height, R(H_SCROLLBAR_HEIGHT)))
    /\ RLt(R(HEADER_HEIGHT), RAdd(RowTop(r, v), R(ROW_HEIGHT)))

\* C26: in every render with 0 <= scroll_offset_y <= max_scroll_y, every loaded
\* row whose vertical extent
\* [header_height + r * row_height - scroll_offset_y, + row_height) meets the row
\* clip region is drawn: the window starting at first_visible omits no visible
\* loaded row.
C26_VisibleLoadedRowsDrawn ==
    (IsSome(frame) /\ Unwrap(frame).rendered) =>
        LET f == Unwrap(frame)
        IN  (RLe(R(0), f.v_scroll) /\ RLe(f.v_scroll, MaxScrollY))
               => \A r \in 0 .. (loaded_row_count(table) - 1) :
                     RowInClip(r, f.v_scroll) => r \in f.rows

\* C26 witness: a frame scrolled by half a row in a clip region two rows high:
\* rows 0 and 2 are cut by the region's edges, and rows 0, 1 and 2 are drawn
C26_Witness ==
    /\ IsSome(frame) /\ Unwrap(frame).rendered
    /\ bounds = ViewB /\ v_scroll_offset = R(14)
    /\ {r \in 0 .. (loaded_row_count(table) - 1) : RowInClip(r, v_scroll_offset)} = 0..2
    /\ RLt(RowTop(0, v_scroll_offset), R(HEADER_HEIGHT))
    /\ RLt(RSub(bounds.height, R(H_SCROLLBAR_HEIGHT)),
           RAdd(RowTop(2, v_scroll_offset), R(ROW_HEIGHT)))
    /\ 0..2 \subseteq Unwrap(frame).rows

====
